---- MODULE Spec2Model ----
(***************************************************************************)
(* A model of the CHIP-8 interpreter of wooster0/chip8.                    *)
(*                                                                         *)
(* The state is the Interpreter struct (src/src/interpreter.rs:16-38) and  *)
(* the position of Interpreter::run.  The opcode handlers are operators on *)
(* a record `s` holding the struct's fields (the `&mut self` of the        *)
(* source); the record also carries `panic`, the message of a Rust panic   *)
(* raised by the handler ("" when there is none).                          *)
(*                                                                         *)
(* Encodings: a bool grid is the set of its cells that are true; the byte  *)
(* array `memory` is the function from the addresses whose byte differs    *)
(* from the image load_font builds (the font, then zeros) to that byte,    *)
(* read with memory_at and written with memory_put, so that equal arrays   *)
(* are equal values; an Option is a sequence of length 0 (None) or 1       *)
(* (Some); a u8/u16 is an integer kept in range by the arithmetic the      *)
(* source uses.                                                            *)
(***************************************************************************)
EXTENDS Integers, Sequences, FiniteSets, TLC

VARIABLES
    pc,              \* Interpreter.pc (Tribble, a u16)
    gpr,             \* Interpreter.gpr, V0..VF
    i,               \* Interpreter.i (Tribble, a u16)
    display,         \* Interpreter.display.grid, as the set of lit <<x, y>>
    stack,           \* Interpreter.stack
    memory,          \* Interpreter.memory, as its difference from load_font
    delay_timer,     \* Interpreter.delay_timer
    sound_timer,     \* Interpreter.sound_timer
    status,          \* where run is: "running", "await_key", or how it ended
    result,          \* the Err value run returned (None until then)
    panic,           \* the message of the Rust panic that ended run ("" when none)
    history,         \* the instructions dispatched so far: [pc, instruction, key]
    binary,          \* the Vec<u8> that get_binary read and Interpreter::new is given
    exit_code,       \* the exit code of the process (None while it runs)
    unit             \* a function called on its own: its arguments and results

vars == <<pc, gpr, i, display, stack, memory, delay_timer, sound_timer,
          status, result, panic, history, binary, exit_code, unit>>

----------------------------------------------------------------------------
(* Program constants *)

GENERAL_PURPOSE_REGISTER_COUNT == 16
MEMORY_SIZE == 4096
START_POINT == 512
SIZE_width == 74
SIZE_height == 42
U8_BITS == 8

None == << >>
Some(v) == << v >>

FONT ==
    << 240, 144, 144, 144, 240, 0, 0,
       48, 80, 144, 16, 16, 0, 0,
       112, 144, 48, 64, 240, 0, 0,
       96, 144, 48, 144, 96, 0, 0,
       144, 144, 240, 16, 16, 0, 0,
       240, 128, 224, 16, 224, 0, 0,
       112, 128, 224, 144, 96, 0, 0,
       240, 16, 32, 64, 64, 0, 0,
       96, 144, 96, 144, 96, 0, 0,
       96, 144, 112, 16, 96, 0, 0,
       96, 144, 240, 144, 144, 0, 0,
       224, 144, 224, 144, 224, 0, 0,
       96, 144, 128, 144, 96, 0, 0,
       224, 144, 144, 144, 224, 0, 0,
       240, 128, 240, 128, 240, 0, 0,
       240, 128, 240, 128, 128, 0, 0 >>

----------------------------------------------------------------------------
(* Machine arithmetic *)

RECURSIVE BitOp(_, _, _, _)
\* The bitwise operation `op` on the low n bits of a and b.
BitOp(op, a, b, n) ==
    IF n = 0 THEN 0
    ELSE LET x == a % 2
             y == b % 2
             r == CASE op = "and" -> x * y
                    [] op = "or"  -> IF x + y > 0 THEN 1 ELSE 0
                    [] op = "xor" -> (x + y) % 2
         IN  r + 2 * BitOp(op, a \div 2, b \div 2, n - 1)

\* The operation on two hex digits, tabulated.
AndTable == [x \in 0 .. 15 |-> [y \in 0 .. 15 |-> BitOp("and", x, y, 4)]]
OrTable  == [x \in 0 .. 15 |-> [y \in 0 .. 15 |-> BitOp("or", x, y, 4)]]
XorTable == [x \in 0 .. 15 |-> [y \in 0 .. 15 |-> BitOp("xor", x, y, 4)]]

\* A bitwise operation on two 16-bit values, hex digit by hex digit.
Bitwise16(table, a, b) ==
      table[a % 16][b % 16]
    + 16 * table[(a \div 16) % 16][(b \div 16) % 16]
    + 256 * table[(a \div 256) % 16][(b \div 256) % 16]
    + 4096 * table[(a \div 4096) % 16][(b \div 4096) % 16]

BitAnd(a, b) == Bitwise16(AndTable, a, b)
BitOr(a, b)  == Bitwise16(OrTable, a, b)
BitXor(a, b) == Bitwise16(XorTable, a, b)

Shr(a, k) == a \div (2 ^ k)
AsU8(a)  == a % 256
AsU16(a) == a % 65536

\* u8::overflowing_add / overflowing_sub: <<result, overflowed>>
overflowing_add(a, b) == << (a + b) % 256, a + b > 255 >>
overflowing_sub(a, b) == << (a - b) % 256, a - b < 0 >>

----------------------------------------------------------------------------
(* Instruction decoding *)

get_instruction(byte1, byte2) ==
    LET word == AsU16(byte1 * 256)
    IN  BitOr(word, byte2)

split_word(word) ==
    LET nibble1 == AsU8(Shr(word, 4 * 3))
        nibble2 == AsU8(Shr(BitAnd(word, 3840), 4 * 2))
        nibble3 == AsU8(Shr(BitAnd(word, 240), 4 * 1))
        nibble4 == AsU8(Shr(BitAnd(word, 15), 4 * 0))
    IN  << nibble1, nibble2, nibble3, nibble4 >>

\* Tribble::new, were the nibbles or-ed without the shifts.
Tribble_new_unshifted(nibble1, nibble2, nibble3) ==
    BitOr(BitOr(nibble1, nibble2), nibble3)

Tribble_new(nibble1, nibble2, nibble3) ==
    BitOr(AsU16(BitOr(AsU16(nibble1 * 16), nibble2) * 16), nibble3)

\* Bits::new: the iterator, [byte, index].
Bits_new(byte) == [byte |-> byte, index |-> 0]

\* Iterator::next, were the index taken as the shift (as next_back does).
Bits_next_low_first(bits) ==
    IF bits.index < U8_BITS
    THEN [item |-> Some(BitAnd(Shr(bits.byte, bits.index), 1) = 1),
          bits |-> [bits EXCEPT !.index = bits.index + 1]]
    ELSE [item |-> None, bits |-> bits]

\* Iterator::next for Bits: the item returned and the iterator it leaves.
Bits_next(bits) ==
    IF (U8_BITS - 1) - bits.index >= 0
    THEN LET rhs == (U8_BITS - 1) - bits.index
             bit == BitAnd(Shr(bits.byte, rhs), 1)
         IN  [item |-> Some(bit = 1),
              bits |-> [bits EXCEPT !.index = bits.index + 1]]
    ELSE [item |-> None, bits |-> bits]

\* DoubleEndedIterator::next_back for Bits; u8::checked_shr is None from a
\* shift of 8 on.
Bits_next_back(bits) ==
    IF bits.index < U8_BITS
    THEN LET lhs == Shr(bits.byte, bits.index)
             bit == BitAnd(lhs, 1)
         IN  [item |-> Some(bit = 1),
              bits |-> [bits EXCEPT !.index = bits.index + 1]]
    ELSE [item |-> None, bits |-> bits]

\* Bits, were the lowest bit yielded first (the order of next_back).
Bits_lsb_first(byte) ==
    [index \in 1 .. U8_BITS |-> BitAnd(Shr(byte, index - 1), 1) = 1]

\* Bits::new(byte) iterated forward: the items `next` yields before None.
Bits(byte) ==
    [index \in 1 .. U8_BITS |->
        BitAnd(Shr(byte, (U8_BITS - 1) - (index - 1)), 1) = 1]

to_ascii_lowercase(char) ==
    CASE char = "Q" -> "q" [] char = "W" -> "w" [] char = "E" -> "e"
      [] char = "R" -> "r" [] char = "A" -> "a" [] char = "S" -> "s"
      [] char = "D" -> "d" [] char = "F" -> "f" [] char = "Z" -> "z"
      [] char = "X" -> "x" [] char = "C" -> "c" [] char = "V" -> "v"
      [] char = "P" -> "p"
      [] OTHER -> char

convert_key(key) ==
    LET c == to_ascii_lowercase(key)
    IN  CASE c = "1" -> Some(1)  [] c = "2" -> Some(2)  [] c = "3" -> Some(3)
          [] c = "4" -> Some(12) [] c = "q" -> Some(4)  [] c = "w" -> Some(5)
          [] c = "e" -> Some(6)  [] c = "r" -> Some(13) [] c = "a" -> Some(7)
          [] c = "s" -> Some(8)  [] c = "d" -> Some(9)  [] c = "f" -> Some(14)
          [] c = "z" -> Some(10) [] c = "x" -> Some(0)  [] c = "c" -> Some(11)
          [] c = "v" -> Some(15)
          [] OTHER -> None

----------------------------------------------------------------------------
(* Construction *)

\* load_font on the zeroed array: the font bytes from address 0, the rest zero.
load_font ==
    [a \in 0 .. MEMORY_SIZE - 1 |-> IF a < Len(FONT) THEN FONT[a + 1] ELSE 0]

\* Whether memory.get(a) is Some, that is whether memory[a] does not panic.
InMemory(a) == a \in 0 .. MEMORY_SIZE - 1

\* memory[a]
memory_at(mem, a) == IF a \in DOMAIN mem THEN mem[a] ELSE load_font[a]

\* memory[a] = v
memory_put(mem, a, v) ==
    IF v = load_font[a]
    THEN [b \in DOMAIN mem \ {a} |-> mem[b]]
    ELSE [b \in DOMAIN mem \cup {a} |-> IF b = a THEN v ELSE mem[b]]

\* The array after load_font.
FreshMemory == [b \in {} |-> 0]

\* The loop of Interpreter::new, were the bytes that find no place dropped
\* without an error.
load_program_truncating(mem, program) ==
    LET place(k) == START_POINT + (k - 1)
        written == {place(k) : k \in {j \in 1 .. Len(program) : InMemory(place(j))}}
        byte(a) == program[a - START_POINT + 1]
        differing == {a \in written : byte(a) /= load_font[a]}
    IN  [ok |-> TRUE,
         memory |-> [a \in (DOMAIN mem \ written) \cup differing |->
                        IF a \in written THEN byte(a) ELSE mem[a]]]

\* The loop of Interpreter::new over program.iter().enumerate(): the bytes
\* before the first one that memory.get_mut finds no place for are written,
\* and that one, if there is one, ends the loop with the error.
load_program(mem, program) ==
    LET place(k) == START_POINT + (k - 1)
        misfits == {k \in 1 .. Len(program) : ~InMemory(place(k))}
        stop == IF misfits = {} THEN Len(program) + 1
                ELSE CHOOSE k \in misfits : \A j \in misfits : k <= j
        written == {place(k) : k \in 1 .. stop - 1}
        byte(a) == program[a - START_POINT + 1]
        differing == {a \in written : byte(a) /= load_font[a]}
    IN  [ok |-> misfits = {},
         memory |-> [a \in (DOMAIN mem \ written) \cup differing |->
                        IF a \in written THEN byte(a) ELSE mem[a]]]

Interpreter_new(program) ==
    LET loaded == load_program(FreshMemory, program)
    IN  [ok |-> loaded.ok,
         s  |-> [pc |-> START_POINT,
                 gpr |-> [r \in 0 .. GENERAL_PURPOSE_REGISTER_COUNT - 1 |-> 0],
                 i |-> 0,
                 display |-> {},
                 stack |-> << >>,
                 memory |-> loaded.memory,
                 delay_timer |-> 0,
                 sound_timer |-> 0,
                 panic |-> ""]]

----------------------------------------------------------------------------
(* Utilities of the interpreter (interpreter.rs:777-818) *)

Panic(s, message) == [s EXCEPT !.panic = message]

get_register(s, register) == s.gpr[register]

set_register(s, register, value) == [s EXCEPT !.gpr[register] = value]

store_lsb_in_flag(s, value) == [s EXCEPT !.gpr[15] = BitAnd(value, 1)]

set_flag(s) == [s EXCEPT !.gpr[15] = 1]

clear_flag(s) == [s EXCEPT !.gpr[15] = 0]

\* next_instruction, were the counter advanced by one byte.
next_instruction_by_one(s) == [s EXCEPT !.pc = s.pc + 1]

next_instruction(s) == [s EXCEPT !.pc = s.pc + 2]

previous_instruction(s) == [s EXCEPT !.pc = s.pc - 2]

skip_next_instruction_if(s, condition) ==
    IF condition THEN next_instruction(s) ELSE s

\* get_bytes, were the second byte not looked up with `get` (a missing byte
\* reads as 0).
get_bytes_first_only(s) ==
    IF InMemory(s.pc)
    THEN Some(<< memory_at(s.memory, s.pc),
                 IF InMemory(s.pc + 1) THEN memory_at(s.memory, s.pc + 1) ELSE 0 >>)
    ELSE None

get_bytes(s) ==
    IF InMemory(s.pc) /\ InMemory(s.pc + 1)
    THEN Some(<< memory_at(s.memory, s.pc), memory_at(s.memory, s.pc + 1) >>)
    ELSE None

\* update_timers, were the sound timer only counted down along with the delay timer.
update_timers_coupled(s) ==
    IF s.delay_timer > 0
    THEN [s EXCEPT !.delay_timer = s.delay_timer - 1,
                   !.sound_timer = IF s.sound_timer > 0 THEN s.sound_timer - 1
                                   ELSE s.sound_timer]
    ELSE s

update_timers(s) ==
    LET d == IF s.delay_timer > 0 THEN s.delay_timer - 1 ELSE s.delay_timer
        t == IF s.sound_timer > 0 THEN s.sound_timer - 1 ELSE s.sound_timer
    IN  [s EXCEPT !.delay_timer = d, !.sound_timer = t]

----------------------------------------------------------------------------
(* The display (display.rs) *)

Display_get(grid, point) == point \in grid

Display_set(grid, point, bit) ==
    IF bit THEN grid \cup {point} ELSE grid \ {point}

\* Display::xor, were the bit or-ed into the cell.
Display_xor_as_or(grid, point, bit) ==
    Display_set(grid, point, Display_get(grid, point) \/ bit)

Display_xor(grid, point, bit) ==
    Display_set(grid, point, Display_get(grid, point) /= bit)

\* Whether grid[point.y][point.x] indexes inside the array.
InGrid(point) ==
    /\ point[2] \in 0 .. SIZE_height - 1
    /\ point[1] \in 0 .. SIZE_width - 1

\* Display::clear, were only the 64 by 32 cells a program addresses cleared.
Display_clear_screen_only(grid) ==
    {point \in grid : point[1] >= 64 \/ point[2] >= 32}

Display_clear(grid) == {}

\* One pass of the inner loop body of Display::draw_sprite, for bit k (counted
\* over all rows); d is [grid, collision, panic].
draw_bit(d, point, bytes, k) ==
    LET row == k \div U8_BITS
        col == k % U8_BITS
        p   == << point[1] + col, point[2] + row >>
        bit == Bits(bytes[row + 1])[col + 1]
    IN  IF ~InGrid(p)
        THEN [d EXCEPT !.panic = "index out of bounds"]
        ELSE LET previous_bit == Display_get(d.grid, p)
                 grid2 == Display_xor(d.grid, p, bit)
                 current_bit == Display_get(grid2, p)
             IN  [grid |-> grid2,
                  collision |-> d.collision \/ (previous_bit /\ ~current_bit),
                  panic |-> ""]

RECURSIVE draw_bits(_, _, _, _, _)
\* The two nested loops of Display::draw_sprite from bit k on, until a panic.
draw_bits(d, point, bytes, k, n) ==
    IF d.panic /= "" \/ k >= n THEN d
    ELSE draw_bits(draw_bit(d, point, bytes, k), point, bytes, k + 1, n)

Display_draw_sprite(grid, point, bytes) ==
    draw_bits([grid |-> grid, collision |-> FALSE, panic |-> ""],
              point, bytes, 0, U8_BITS * Len(bytes))

----------------------------------------------------------------------------
(* The opcode handlers (interpreter.rs:323-721) *)

clear_display(s) == [s EXCEPT !.display = Display_clear(s.display)]

\* jump, were the counter advanced after the handler instead of before it.
jump_then_advance(s, address) == [s EXCEPT !.pc = address + 2]

jump(s, address) == [s EXCEPT !.pc = address]

return(s) ==
    IF Len(s.stack) > 0
    THEN jump([s EXCEPT !.stack = SubSeq(s.stack, 1, Len(s.stack) - 1)],
              s.stack[Len(s.stack)])
    ELSE Panic(s, "return outside function")

\* call, were the address of the call itself pushed.
call_pushing_call_site(s, address) ==
    jump([s EXCEPT !.stack = Append(s.stack, s.pc - 2)], address)

\* call, were the low byte of the return address also kept in the memory, at
\* 0xEA0.
call_onto_memory(s, address) ==
    jump([s EXCEPT !.stack = Append(s.stack, s.pc),
                   !.memory = memory_put(s.memory, 3744, s.pc % 256)], address)

call(s, address) == jump([s EXCEPT !.stack = Append(s.stack, s.pc)], address)

value_equality_skip(s, register, byte) ==
    skip_next_instruction_if(s, get_register(s, register) = byte)

value_inequality_skip(s, register, byte) ==
    skip_next_instruction_if(s, get_register(s, register) /= byte)

register_equality_skip(s, register1, register2) ==
    skip_next_instruction_if(s, get_register(s, register1) = get_register(s, register2))

register_inequality_skip(s, register1, register2) ==
    skip_next_instruction_if(s, get_register(s, register1) /= get_register(s, register2))

set_register_to_value(s, register, value) == set_register(s, register, value)

add_to_register(s, register, value) ==
    set_register(s, register, (get_register(s, register) + value) % 256)

set_registers(s, register1, register2) ==
    set_register(s, register1, get_register(s, register2))

or_registers(s, register1, register2) ==
    set_register(s, register1,
                 BitOr(get_register(s, register1), get_register(s, register2)))

and_registers(s, register1, register2) ==
    set_register(s, register1,
                 BitAnd(get_register(s, register1), get_register(s, register2)))

xor_registers(s, register1, register2) ==
    set_register(s, register1,
                 BitXor(get_register(s, register1), get_register(s, register2)))

\* add_registers, were the flag left alone when there is no overflow.
add_registers_stale_flag(s, register1, register2) ==
    LET r  == overflowing_add(get_register(s, register1), get_register(s, register2))
        s2 == set_register(s, register1, r[1])
    IN  IF r[2] THEN set_flag(s2) ELSE s2

add_registers(s, register1, register2) ==
    LET register2_value == get_register(s, register2)
        register1_value == get_register(s, register1)
        r  == overflowing_add(register1_value, register2_value)
        s2 == set_register(s, register1, r[1])
    IN  IF r[2] THEN set_flag(s2) ELSE clear_flag(s2)

sub_registers1(s, register1, register2) ==
    LET value2 == get_register(s, register2)
        value1 == get_register(s, register1)
        r  == overflowing_sub(value1, value2)
        s2 == set_register(s, register1, r[1])
    IN  IF r[2] THEN clear_flag(s2) ELSE set_flag(s2)

shift_register_right(s, register) ==
    LET value == get_register(s, register)
        s2 == store_lsb_in_flag(s, value)
    IN  set_register(s2, register, Shr(get_register(s2, register), 1))

\* sub_registers2, were the operands in the order of sub_registers1.
sub_registers2_swapped(s, register1, register2) ==
    LET r  == overflowing_sub(get_register(s, register1), get_register(s, register2))
        s2 == set_register(s, register1, r[1])
    IN  IF r[2] THEN clear_flag(s2) ELSE set_flag(s2)

sub_registers2(s, register1, register2) ==
    LET value2 == get_register(s, register2)
        value1 == get_register(s, register1)
        r  == overflowing_sub(value2, value1)
        s2 == set_register(s, register1, r[1])
    IN  IF r[2] THEN clear_flag(s2) ELSE set_flag(s2)

\* shift_register_left, were the bit shifted out (the highest) kept in the flag.
shift_register_left_msb(s, register) ==
    LET value == get_register(s, register)
        s2 == [s EXCEPT !.gpr[15] = Shr(value, 7)]
    IN  set_register(s2, register, AsU8(get_register(s2, register) * 2))

shift_register_left(s, register) ==
    LET value == get_register(s, register)
        s2 == store_lsb_in_flag(s, value)
    IN  set_register(s2, register, AsU8(get_register(s2, register) * 2))

set_address_register(s, address) == [s EXCEPT !.i = address]

jump_with_register(s, address) ==
    jump(s, AsU16(get_register(s, 0) + address))

\* rn is the byte the random number generator returns.
generate_random(s, register, byte, rn) ==
    set_register(s, register, BitAnd(rn, byte))

\* draw_sprite, were the flag left alone when there is no collision.
draw_sprite_stale_flag(s, register1, register2, height) ==
    LET x == get_register(s, register1)
        y == get_register(s, register2)
        point == << x, y >>
    IN  IF s.i + height > MEMORY_SIZE
        THEN Panic(s, "range end index out of range for slice")
        ELSE LET bytes == [k \in 1 .. height |-> memory_at(s.memory, s.i + (k - 1))]
                 d == Display_draw_sprite(s.display, point, bytes)
                 s2 == [s EXCEPT !.display = d.grid]
             IN  IF d.panic /= "" THEN Panic(s2, d.panic)
                 ELSE IF d.collision THEN set_flag(s2) ELSE s2

draw_sprite(s, register1, register2, height) ==
    LET x == get_register(s, register1)
        y == get_register(s, register2)
        point == << x, y >>
    IN  IF s.i + height > MEMORY_SIZE
        THEN Panic(s, "range end index out of range for slice")
        ELSE LET bytes == [k \in 1 .. height |-> memory_at(s.memory, s.i + (k - 1))]
                 d == Display_draw_sprite(s.display, point, bytes)
                 s2 == [s EXCEPT !.display = d.grid]
             IN  IF d.panic /= "" THEN Panic(s2, d.panic)
                 ELSE IF d.collision THEN set_flag(s2) ELSE clear_flag(s2)

key_equality_skip(s, register, key) ==
    IF key /= None
    THEN skip_next_instruction_if(s, key[1] = get_register(s, register))
    ELSE s

\* key_inequality_skip, were "no key" taken as "not that key".
key_inequality_skip_unpressed(s, register, key) ==
    IF key /= None
    THEN skip_next_instruction_if(s, key[1] /= get_register(s, register))
    ELSE next_instruction(s)

key_inequality_skip(s, register, key) ==
    IF key /= None
    THEN skip_next_instruction_if(s, key[1] /= get_register(s, register))
    ELSE s

get_delay_timer(s, register) == set_register(s, register, s.delay_timer)

\* await_key, were the key stored in the flag register.
await_key_into_flag(s, register, hex_key) == set_register(s, 15, hex_key)

\* hex_key is what await_hex_key returned.
\* await_key, were the key polled at the start of the cycle, when there was
\* one, taken for the key awaited.
await_key_on_polled_key(s, register, hex_key) ==
    set_register(s, register,
                 IF history[Len(history)].key /= None
                 THEN history[Len(history)].key[1] ELSE hex_key)

await_key(s, register, hex_key) == set_register(s, register, hex_key)

set_delay_timer(s, register) ==
    [s EXCEPT !.delay_timer = get_register(s, register)]

\* set_sound_timer, were it to write the delay timer.
set_sound_timer_as_delay(s, register) ==
    [s EXCEPT !.delay_timer = get_register(s, register)]

set_sound_timer(s, register) ==
    [s EXCEPT !.sound_timer = get_register(s, register)]

\* A u16 addition: when it overflows it panics in a build that checks overflow
\* (`checked`, the debug profile) and wraps otherwise (the release profile).
add_address_register(s, register, checked) ==
    LET sum == s.i + get_register(s, register)
    IN  IF sum > 65535 /\ checked
        THEN Panic(s, "attempt to add with overflow")
        ELSE [s EXCEPT !.i = AsU16(sum)]

set_sprite(s, register) == [s EXCEPT !.i = get_register(s, register)]

\* set_address_register_to_bcd, were the tens digit not reduced modulo 10.
set_address_register_to_bcd_tens(s, register) ==
    LET value == get_register(s, register)
        digit1 == value \div 100
        digit2 == value \div 10
        digit3 == value % 10
        oob == "index out of bounds"
    IN  IF ~InMemory(s.i + 2) THEN Panic(s, oob)
        ELSE [s EXCEPT !.memory =
                 memory_put(memory_put(memory_put(s.memory, s.i, digit1),
                                       s.i + 1, digit2), s.i + 2, digit3)]

set_address_register_to_bcd(s, register) ==
    LET value == get_register(s, register)
        digit1 == value \div 100
        digit2 == (value \div 10) % 10
        digit3 == value % 10
        oob == "index out of bounds"
    IN  IF ~InMemory(s.i) THEN Panic(s, oob)
        ELSE LET s1 == [s EXCEPT !.memory = memory_put(s.memory, s.i, digit1)]
             IN  IF ~InMemory(s.i + 1) THEN Panic(s1, oob)
                 ELSE LET s2 == [s1 EXCEPT !.memory =
                                    memory_put(s1.memory, s.i + 1, digit2)]
                      IN  IF ~InMemory(s.i + 2) THEN Panic(s2, oob)
                          ELSE [s2 EXCEPT !.memory =
                                   memory_put(s2.memory, s.i + 2, digit3)]

RECURSIVE store_registers_from(_, _, _, _)
\* The loop of store_registers from register r to `last`.
store_registers_from(s, r, last, checked) ==
    IF r > last THEN s
    ELSE LET sum == s.i + r
             a   == AsU16(sum)
         IN  IF sum > 65535 /\ checked
             THEN Panic(s, "attempt to add with overflow")
             ELSE IF ~InMemory(a)
             THEN Panic(s, "index out of bounds")
             ELSE store_registers_from(
                      [s EXCEPT !.memory = memory_put(s.memory, a, get_register(s, r))],
                      r + 1, last, checked)

\* store_registers, were the range of registers exclusive of the last one.
store_registers_exclusive(s, register, checked) ==
    store_registers_from(s, 0, register - 1, checked)

store_registers(s, register, checked) ==
    store_registers_from(s, 0, register, checked)

RECURSIVE store_memory_from(_, _, _, _)
\* The loop of store_memory from register r to `last`.
store_memory_from(s, r, last, checked) ==
    IF r > last THEN s
    ELSE LET sum == s.i + r
             a   == AsU16(sum)
         IN  IF sum > 65535 /\ checked
             THEN Panic(s, "attempt to add with overflow")
             ELSE IF ~InMemory(a)
             THEN Panic(s, "index out of bounds")
             ELSE store_memory_from(set_register(s, r, memory_at(s.memory, a)),
                                    r + 1, last, checked)

store_memory(s, register, checked) ==
    store_memory_from(s, 0, register, checked)

\* Interpreter::error, were the counter left where the dispatch found it.
error_without_step_back(s, byte1, byte2) ==
    [s |-> s,
     err |-> [instruction |-> get_instruction(byte1, byte2),
              previous_instruction |-> get_instruction(byte1, byte2)]]

\* Interpreter::error: the Err value, and the interpreter it leaves.
error(s, byte1, byte2) ==
    LET instruction == get_instruction(byte1, byte2)
        s2 == previous_instruction(s)
        bytes == get_bytes(s2)[1]
        previous == get_instruction(bytes[1], bytes[2])
    IN  [s |-> s2,
         err |-> [instruction |-> instruction, previous_instruction |-> previous]]

----------------------------------------------------------------------------
(* Interpreter::run (interpreter.rs:184-321) *)

Executed(s) == [kind |-> "executed", s |-> s, err |-> None]

Failed(e) == [kind |-> "error", s |-> e.s, err |-> Some(e.err)]

\* The handler blocks in await_hex_key before it writes the register.
Blocked(s) == [kind |-> "await_key", s |-> s, err |-> None]

\* The match of run on the decoded instruction; s has the counter advanced.
dispatch(s, byte1, byte2, key, rn, checked) ==
    LET instruction == get_instruction(byte1, byte2)
        nibbles == split_word(instruction)
        nibble1 == nibbles[1]
        nibble2 == nibbles[2]
        nibble3 == nibbles[3]
        nibble4 == nibbles[4]
        tribble == Tribble_new(nibble2, nibble3, nibble4)
    IN  CASE nibble1 = 0 ->
               (CASE tribble = 224 -> Executed(clear_display(s))
                  [] tribble = 238 -> Executed(return(s))
                  [] OTHER -> Executed(s))
          [] nibble1 = 1 -> Executed(jump(s, tribble))
          [] nibble1 = 2 -> Executed(call(s, tribble))
          [] nibble1 = 3 -> Executed(value_equality_skip(s, nibble2, byte2))
          [] nibble1 = 4 -> Executed(value_inequality_skip(s, nibble2, byte2))
          [] nibble1 = 5 -> Executed(register_equality_skip(s, nibble2, nibble3))
          [] nibble1 = 6 -> Executed(set_register_to_value(s, nibble2, byte2))
          [] nibble1 = 7 -> Executed(add_to_register(s, nibble2, byte2))
          [] nibble1 = 8 ->
               (CASE nibble4 = 0 -> Executed(set_registers(s, nibble2, nibble3))
                  [] nibble4 = 1 -> Executed(or_registers(s, nibble2, nibble3))
                  [] nibble4 = 2 -> Executed(and_registers(s, nibble2, nibble3))
                  [] nibble4 = 3 -> Executed(xor_registers(s, nibble2, nibble3))
                  [] nibble4 = 4 -> Executed(add_registers(s, nibble2, nibble3))
                  [] nibble4 = 5 -> Executed(sub_registers1(s, nibble2, nibble3))
                  [] nibble4 = 6 -> Executed(shift_register_right(s, nibble2))
                  [] nibble4 = 7 -> Executed(sub_registers2(s, nibble2, nibble3))
                  [] nibble4 = 14 -> Executed(shift_register_left(s, nibble2))
                  [] OTHER -> Failed(error(s, byte1, byte2)))
          [] nibble1 = 9 -> Executed(register_inequality_skip(s, nibble2, nibble3))
          [] nibble1 = 10 -> Executed(set_address_register(s, tribble))
          [] nibble1 = 11 -> Executed(jump_with_register(s, tribble))
          [] nibble1 = 12 -> Executed(generate_random(s, nibble2, byte2, rn))
          [] nibble1 = 13 -> Executed(draw_sprite(s, nibble2, nibble3, nibble4))
          [] nibble1 = 14 ->
               (CASE nibble3 = 9 -> Executed(key_equality_skip(s, nibble2, key))
                  [] nibble3 = 10 -> Executed(key_inequality_skip(s, nibble2, key))
                  [] OTHER -> Failed(error(s, byte1, byte2)))
          [] nibble1 = 15 ->
               (CASE byte2 = 7 -> Executed(get_delay_timer(s, nibble2))
                  [] byte2 = 10 -> Blocked(s)
                  [] byte2 = 21 -> Executed(set_delay_timer(s, nibble2))
                  [] byte2 = 24 -> Executed(set_sound_timer(s, nibble2))
                  [] byte2 = 30 -> Executed(add_address_register(s, nibble2, checked))
                  [] byte2 = 41 -> Executed(set_sprite(s, nibble2))
                  [] byte2 = 51 -> Executed(set_address_register_to_bcd(s, nibble2))
                  [] byte2 = 85 -> Executed(store_registers(s, nibble2, checked))
                  [] byte2 = 101 -> Executed(store_memory(s, nibble2, checked))
                  [] OTHER -> Failed(error(s, byte1, byte2)))
          [] OTHER -> Failed(error(s, byte1, byte2))

\* The key that the poll at the top of the loop body leaves in `key`.
polled_key(event) ==
    IF event.kind = "Char" THEN convert_key(event.char) ELSE None

----------------------------------------------------------------------------
(* The state machine *)

Self ==
    [pc |-> pc, gpr |-> gpr, i |-> i, display |-> display, stack |-> stack,
     memory |-> memory, delay_timer |-> delay_timer, sound_timer |-> sound_timer,
     panic |-> panic]

\* The interpreter's fields become those of s.
Becomes(s) ==
    /\ pc' = s.pc
    /\ gpr' = s.gpr
    /\ i' = s.i
    /\ display' = s.display
    /\ stack' = s.stack
    /\ memory' = s.memory
    /\ delay_timer' = s.delay_timer
    /\ sound_timer' = s.sound_timer
    /\ panic' = s.panic

Timeout == [kind |-> "Timeout", char |-> ""]
Esc     == [kind |-> "Esc", char |-> ""]
Enter   == [kind |-> "Enter", char |-> ""]
Char(c) == [kind |-> "Char", char |-> c]

\* What terminal.poll_event / terminal.read_event can deliver.
Events == {Timeout, Esc, Enter} \cup {Char(c) : c \in {"1", "x", "Q", "p"}}

\* The bytes the random number generator can return.
RandomBytes == {0, 90, 255}

\* The number of loop iterations of run that are followed.
MaxCycles == 8

InstructionAt(mem, address) ==
    get_instruction(memory_at(mem, address), memory_at(mem, address + 1))

Nibble(word, k) == split_word(word)[k]

\* What the history keeps of a dispatched instruction: where it was fetched,
\* its word, the polled key when the instruction is one about keys, and the
\* grid it found when the instruction is one that writes the display.
Fetched(address, instruction, key, grid) ==
    [pc |-> address, instruction |-> instruction, key |-> key, display |-> grid]

\* The words the dispatcher hands to key_equality_skip or key_inequality_skip
\* (or to error), and the word of await_key.
AboutKeys(instruction) ==
    \/ Nibble(instruction, 1) = 14
    \/ Nibble(instruction, 1) = 15 /\ instruction % 256 = 10

\* The words the dispatcher hands to clear_display and to draw_sprite.
WritesDisplay(instruction) ==
    instruction = 224 \/ Nibble(instruction, 1) = 13

----------------------------------------------------------------------------
(* The programs that are run *)

WordBytes(word) == << word \div 256, word % 256 >>

\* The bytes of a sequence of instruction words, big-endian.
Assemble(words) ==
    [k \in 1 .. 2 * Len(words) |->
        WordBytes(words[(k + 1) \div 2])[IF k % 2 = 1 THEN 1 ELSE 2]]

\* Every sequence of 1..n words of the pool.
Sequences(pool, n) == UNION {[1 .. k -> pool] : k \in 1 .. n}

\* The instruction words of the four layouts.
Op(nibble1, nibble2, nibble3, nibble4) ==
    nibble1 * 4096 + nibble2 * 256 + nibble3 * 16 + nibble4
OpByte(nibble1, x, kk) == nibble1 * 4096 + x * 256 + kk
OpAddr(nibble1, addr) == nibble1 * 4096 + addr
OpF(x, kk) == OpByte(15, x, kk)

\* Calls, returns and jumps, in every order.
MaxControlLen == 3
ControlPool ==
    { Op(0, 0, 14, 14), OpAddr(2, 514), OpAddr(2, 516),
      OpAddr(1, 512), OpAddr(1, 4094), OpAddr(1, 4095) }
ControlPrograms == Sequences(ControlPool, MaxControlLen)

\* Two registers are loaded, then a skip opcode (or a word next to one) runs.
SkipValues == {0, 1, 255}
SkipWords ==
    { OpByte(3, 0, 0), OpByte(3, 0, 1), OpByte(4, 0, 0), OpByte(4, 0, 255),
      Op(5, 0, 1, 0), Op(5, 0, 0, 0), Op(5, 0, 1, 1), Op(9, 0, 1, 0), Op(9, 1, 1, 0),
      Op(9, 0, 1, 1), Op(14, 0, 9, 14), Op(14, 0, 10, 1), Op(14, 0, 9, 15),
      Op(14, 0, 11, 1) }
SkipPrograms ==
    { << OpByte(6, 0, a), OpByte(6, 1, b), w >> :
        a \in SkipValues, b \in SkipValues, w \in SkipWords }

\* Two registers are loaded, then an 8xyN word runs, then a jump to the last byte.
AluValues == {0, 1, 3, 5, 128, 255}
AluRegisters == { << 0, 1 >>, << 2, 2 >>, << 3, 15 >>, << 15, 4 >> }
AluPrograms ==
    { << OpByte(6, r[1], a), OpByte(6, r[2], b), Op(8, r[1], r[2], n),
         OpAddr(1, 4095) >> :
        r \in AluRegisters, a \in AluValues, b \in AluValues, n \in 0 .. 15 }

\* V0 and I are loaded, then one of the remaining words runs.
MiscValues == {0, 7, 255}
MiscAddresses == {0, 768, 4094}
MiscWords ==
    { Op(0, 0, 14, 0), OpAddr(0, 291), OpByte(7, 0, 1), OpByte(7, 0, 255),
      OpAddr(11, 768), OpAddr(11, 4094), OpByte(12, 0, 255), OpByte(12, 1, 15),
      Op(13, 0, 0, 5), Op(13, 0, 1, 1),
      OpF(0, 7), OpF(0, 10), OpF(0, 21), OpF(0, 24), OpF(0, 30), OpF(0, 41),
      OpF(0, 51), OpF(0, 85), OpF(1, 85), OpF(0, 101), OpF(1, 101),
      OpF(0, 255), OpF(0, 0) }
MiscPrograms ==
    { << OpByte(6, 0, a), OpAddr(10, addr), w >> :
        a \in MiscValues, addr \in MiscAddresses, w \in MiscWords }

\* V0, V1 and I are loaded, then three words that draw, clear, move I to the
\* next glyph of the font or set VF run.
DrawColumns == {0, 62, 70}
DrawRows == {0, 30, 40}
DrawAddresses == {0, 4094}
DrawPool ==
    { Op(13, 0, 1, 5), Op(13, 0, 1, 1), OpAddr(10, 7), OpByte(6, 15, 1),
      Op(0, 0, 14, 0) }
DrawPrograms ==
    { << OpByte(6, 0, x), OpByte(6, 1, y), OpAddr(10, addr), w1, w2, w3 >> :
        x \in DrawColumns, y \in DrawRows, addr \in DrawAddresses,
        w1 \in DrawPool, w2 \in DrawPool, w3 \in DrawPool }

\* V0 and V1 are loaded, then two words that set or read a timer, wait for a
\* key or are no opcode.
TimerValues == {0, 1, 3, 255}
TimerPool == { OpF(0, 21), OpF(1, 24), OpF(2, 7), OpF(3, 10), OpF(0, 255) }
TimerPrograms ==
    { << OpByte(6, 0, a), OpByte(6, 1, b), w1, w2 >> :
        a \in TimerValues, b \in TimerValues, w1 \in TimerPool, w2 \in TimerPool }

\* V0 takes every byte value, I is set and Fx33 runs.
BcdPrograms ==
    { << OpByte(6, 0, v), OpAddr(10, 768), OpF(0, 51) >> : v \in 0 .. 255 }

\* V0, V1 and V2 are loaded, Fx55 stores some of them at I, V0 and V1 are
\* loaded anew and Fy65 reads some registers back.
StoreValues == {1, 200}
StoreRegisters == {0, 1, 2}
StorePrograms ==
    { << OpByte(6, 0, a), OpByte(6, 1, b), OpByte(6, 2, c), OpAddr(10, 768),
         OpF(x, 85), OpByte(6, 0, 7), OpByte(6, 1, 8), OpF(y, 101) >> :
        a \in StoreValues, b \in StoreValues, c \in StoreValues,
        x \in StoreRegisters, y \in StoreRegisters }

Programs ==
    ControlPrograms \cup SkipPrograms \cup AluPrograms \cup MiscPrograms
        \cup DrawPrograms \cup TimerPrograms \cup BcdPrograms \cup StorePrograms

\* Binaries about as long as the memory from START_POINT on, zero but for
\* their first and last bytes.
LongLengths == (MEMORY_SIZE - START_POINT - 2) .. (MEMORY_SIZE - START_POINT + 2)
LongBinary(n, first, last) ==
    [k \in 1 .. n |-> IF k = 1 THEN first ELSE IF k = n THEN last ELSE 0]
LongBinaries ==
    { LongBinary(n, first, last) : n \in LongLengths, first \in {0, 18}, last \in {0, 1} }

\* The files the interpreter is started on.
Binaries == {Assemble(words) : words \in Programs} \cup {<< >>} \cup LongBinaries

----------------------------------------------------------------------------
(* Actions *)

\* The process has ended by process::exit(0) (Esc), by a panic, or not yet.
ExitCodeAfter(ended, code) ==
    CASE ended = "exit" -> Some(0)
      [] ended = "panic" -> Some(101)
      [] OTHER -> code

\* No function is called on its own: the interpreter runs.
NoUnit == [name |-> "run"]

\* The fields of the interpreter that Interpreter::new makes of the binary.
Constructed(made) ==
    /\ pc = made.s.pc
    /\ gpr = made.s.gpr
    /\ i = made.s.i
    /\ display = made.s.display
    /\ stack = made.s.stack
    /\ memory = made.s.memory
    /\ delay_timer = made.s.delay_timer
    /\ sound_timer = made.s.sound_timer
    /\ panic = made.s.panic
    /\ result = None
    /\ history = << >>

Init ==
    \E bytes \in Binaries :
        LET made == Interpreter_new(bytes)
        IN  /\ binary = bytes
            /\ unit = NoUnit
            /\ exit_code = (IF made.ok THEN None ELSE Some(1))
            /\ status = (IF made.ok THEN "running" ELSE "load_error")
            /\ Constructed(made)

\* `while let Some(..) = self.get_bytes()` fails: run returns Ok(()).
Halt ==
    /\ status = "running"
    /\ get_bytes(Self) = None
    /\ status' = "ok"
    /\ UNCHANGED <<pc, gpr, i, display, stack, memory, delay_timer, sound_timer,
                   result, panic, history, binary, exit_code, unit>>

\* One iteration of the loop of run, of the first `cycles` that are followed.
CycleWithin(cycles) ==
    /\ status = "running"
    /\ get_bytes(Self) /= None
    /\ Len(history) < cycles
    /\ \E bytes \in {get_bytes(Self)[1]} :
       \E instruction \in {get_instruction(bytes[1], bytes[2])} :
       \E event \in Events,
          rn \in (IF Nibble(instruction, 1) = 12 THEN RandomBytes ELSE {0}),
          checked \in (IF Nibble(instruction, 1) = 15 THEN BOOLEAN ELSE {TRUE}) :
          IF event = Esc
          THEN /\ status' = "exit"
               /\ UNCHANGED <<pc, gpr, i, display, stack, memory, delay_timer,
                              sound_timer, result, panic, history>>
          ELSE \E key \in {polled_key(event)} :
               \E d \in {dispatch(next_instruction(Self), bytes[1], bytes[2],
                                  key, rn, checked)} :
               \E fetched \in {Fetched(pc, instruction,
                                  IF AboutKeys(instruction) THEN key ELSE None,
                                  IF WritesDisplay(instruction) THEN display ELSE {})} :
                     CASE d.kind = "error" ->
                            /\ Becomes(d.s)
                            /\ status' = "error"
                            /\ result' = d.err
                            /\ UNCHANGED history
                       [] d.kind = "await_key" ->
                            /\ Becomes(d.s)
                            /\ status' = "await_key"
                            /\ history' = Append(history, fetched)
                            /\ UNCHANGED result
                       [] d.kind = "executed" /\ d.s.panic /= "" ->
                            /\ Becomes(d.s)
                            /\ status' = "panic"
                            /\ history' = Append(history, fetched)
                            /\ UNCHANGED result
                       [] OTHER ->
                            /\ \E s \in {update_timers(d.s)} : Becomes(s)
                            /\ history' = Append(history, fetched)
                            /\ UNCHANGED <<status, result>>
    /\ exit_code' = ExitCodeAfter(status', exit_code)
    /\ UNCHANGED <<binary, unit>>

Cycle == CycleWithin(MaxCycles)

\* One iteration of the loop of await_hex_key, entered from Fx0A.
AwaitKey ==
    /\ status = "await_key"
    /\ \E event \in Events :
       \E register \in {Nibble(history[Len(history)].instruction, 2)} :
       \E hex_key \in {polled_key(event)} :
          IF event = Esc
          THEN /\ status' = "exit"
               /\ UNCHANGED <<pc, gpr, i, display, stack, memory, delay_timer,
                              sound_timer, result, panic, history>>
          ELSE IF hex_key /= None
          THEN /\ \E s \in {update_timers(await_key(Self, register, hex_key[1]))} :
                     Becomes(s)
               /\ status' = "running"
               /\ UNCHANGED <<result, history>>
          ELSE UNCHANGED <<pc, gpr, i, display, stack, memory, delay_timer,
                           sound_timer, result, panic, history, status>>
    /\ exit_code' = ExitCodeAfter(status', exit_code)
    /\ UNCHANGED <<binary, unit>>

\* run has returned to crate::run, which writes "Program ended. Press any key
\* to continue.", reads an event and returns the result to main.
Finish ==
    /\ status \in {"ok", "error"}
    /\ exit_code = None
    /\ \E event \in Events :
          exit_code' = (IF event = Esc THEN Some(0)
                        ELSE IF status = "ok" THEN Some(0) ELSE Some(1))
    /\ UNCHANGED <<pc, gpr, i, display, stack, memory, delay_timer, sound_timer,
                   status, result, panic, history, binary, unit>>

Next == Halt \/ Cycle \/ AwaitKey \/ Finish

\* A program that sets I to 0xFFF and then adds 0xFF to it 241 times over,
\* followed for as many cycles as it takes I to pass 0xFFFF.
MaxAddCycles == 245
AddWords ==
    << OpByte(6, 0, 255), OpAddr(10, 4095) >> \o [k \in 1 .. 241 |-> OpF(0, 30)]

AddInit ==
    /\ binary = Assemble(AddWords)
    /\ unit = NoUnit
    /\ exit_code = None
    /\ status = "running"
    /\ Constructed(Interpreter_new(Assemble(AddWords)))

AddCycle == CycleWithin(MaxAddCycles)

AddNext == AddCycle

AddSpec == AddInit /\ [][AddNext]_vars

\* A program that runs from START_POINT to the end of the memory: V0 is set,
\* a skip is not taken, and the zero bytes of the memory after it are words
\* that do nothing. And programs that end early: a wait for a key, then skips
\* taken and not taken, before a word that is no opcode; a draw outside the
\* grid; and a word that is no opcode at START_POINT.
StraightBinaries ==
    { Assemble(<< OpByte(6, 0, 0), OpByte(4, 0, 0) >>),
      Assemble(<< OpF(1, 10), OpByte(3, 0, 0), 0, OpByte(4, 0, 0), OpByte(6, 1, 1),
                  OpF(0, 255) >>),
      Assemble(<< OpByte(6, 0, 70), Op(13, 0, 1, 1) >>),
      Assemble(<< OpF(0, 255) >>) }

\* The number of loop iterations of run that are followed: more than a run
\* over the whole memory takes.
MaxStraightCycles == 1795

StraightInit ==
    \E bytes \in StraightBinaries :
        /\ binary = bytes
        /\ unit = NoUnit
        /\ exit_code = None
        /\ status = "running"
        /\ Constructed(Interpreter_new(bytes))

StraightCycle == CycleWithin(MaxStraightCycles)

StraightNext == Halt \/ StraightCycle \/ AwaitKey

\* The loop of run goes on while it can, and read_event in await_hex_key
\* returns again and again until a key ends the wait.
StraightSpec == StraightInit /\ [][StraightNext]_vars /\ WF_vars(StraightNext)

----------------------------------------------------------------------------
(* The decoding functions and the Bits iterator, called on their own *)

\* No interpreter runs: the function of `u` is called on its own.
UnitInit(u) ==
    /\ unit = u
    /\ binary = << >>
    /\ exit_code = None
    /\ status = "unit"
    /\ Constructed(Interpreter_new(<< >>))

UnitKeeps ==
    UNCHANGED <<pc, gpr, i, display, stack, memory, delay_timer, sound_timer,
                status, result, panic, history, binary, exit_code>>

\* Two bytes, as get_bytes hands them to run.
DecodeInit ==
    \E byte1 \in 0 .. 255, byte2 \in 0 .. 255 :
        UnitInit([name |-> "decode", byte1 |-> byte1, byte2 |-> byte2,
                  instruction |-> None, nibbles |-> None, tribble |-> None])

\* The first three statements of the loop body of run.
Decode ==
    /\ unit.instruction = None
    /\ \E instruction \in {get_instruction(unit.byte1, unit.byte2)} :
       \E nibbles \in {split_word(instruction)} :
          unit' = [unit EXCEPT
                     !.instruction = Some(instruction),
                     !.nibbles = Some(nibbles),
                     !.tribble = Some(Tribble_new(nibbles[2], nibbles[3], nibbles[4]))]
    /\ UnitKeeps

DecodeNext == Decode

DecodeSpec == DecodeInit /\ [][DecodeNext]_vars

\* The number of calls of next or next_back that are followed.
MaxItems == 10

\* Bits::new(byte), to be iterated forward or, through rev(), backward.
BitsInit ==
    \E byte \in 0 .. 255, rev \in BOOLEAN :
        UnitInit([name |-> "Bits", rev |-> rev, bits |-> Bits_new(byte),
                  yielded |-> << >>])

\* A call of next on Bits::new(byte).
Forward ==
    /\ ~unit.rev
    /\ Len(unit.yielded) < MaxItems
    /\ \E r \in {Bits_next(unit.bits)} :
          unit' = [unit EXCEPT !.bits = r.bits, !.yielded = Append(@, r.item)]
    /\ UnitKeeps

\* A call of next on Bits::new(byte).rev(), which is next_back.
Backward ==
    /\ unit.rev
    /\ Len(unit.yielded) < MaxItems
    /\ \E r \in {Bits_next_back(unit.bits)} :
          unit' = [unit EXCEPT !.bits = r.bits, !.yielded = Append(@, r.item)]
    /\ UnitKeeps

BitsNext == Forward \/ Backward

BitsSpec == BitsInit /\ [][BitsNext]_vars

Spec == Init /\ [][Next]_vars

----------------------------------------------------------------------------
(* Vocabulary of the properties *)

\* The instruction dispatched last.
LastFetched == history[Len(history)]

\* A cycle has completed and run is back at the top of its loop.
AfterCycle == status = "running" /\ history /= << >>

\* This step is a completed cycle of run that executed the word at pc.
CycleStep ==
    /\ status = "running"
    /\ status' = "running"
    /\ Len(history') = Len(history) + 1

\* The word a CycleStep executes, and its fields.
Word == InstructionAt(memory, pc)
WordX == (Word \div 256) % 16
WordY == (Word \div 16) % 16

IsJumpWord(w) == w \div 4096 \in {1, 11}
IsCallWord(w) == w \div 4096 = 2
IsReturnWord(w) == w = 238
\* The words the dispatcher hands to a skip handler.
IsSkipWord(w) == w \div 4096 \in {3, 4, 5, 9, 14}

\* Whether the skip handler the word is handed to finds its condition true,
\* with the registers regs and the polled key.
SkipCondition(w, regs, key) ==
    LET n1 == w \div 4096
        n3 == (w \div 16) % 16
        x  == (w \div 256) % 16
        y  == (w \div 16) % 16
        kk == w % 256
    IN  CASE n1 = 3 -> regs[x] = kk
          [] n1 = 4 -> regs[x] /= kk
          [] n1 = 5 -> regs[x] = regs[y]
          [] n1 = 9 -> regs[x] /= regs[y]
          [] n1 = 14 /\ n3 = 9 -> key /= None /\ key[1] = regs[x]
          [] n1 = 14 /\ n3 = 10 -> key /= None /\ key[1] /= regs[x]
          [] OTHER -> FALSE

\* The patterns of the opcode table.
IsListedOpcode(w) ==
    LET n1 == w \div 4096
        n4 == w % 16
        kk == w % 256
    IN  \/ w \in {224, 238}
        \/ n1 \in {1, 2, 3, 4, 6, 7, 10, 11, 12, 13}
        \/ n1 \in {5, 9} /\ n4 = 0
        \/ n1 = 8 /\ n4 \in {0, 1, 2, 3, 4, 5, 6, 7, 14}
        \/ n1 = 14 /\ kk \in {158, 161}
        \/ n1 = 15 /\ kk \in {7, 10, 21, 24, 30, 41, 51, 85, 101}

----------------------------------------------------------------------------
(* C1: the counter is advanced by 2 before the handler runs: after a cycle
   that executed 1addr the counter is addr exactly, and after a cycle that
   executed an instruction that is no jump, call, return or skip taken (a
   skip leaves the registers as they were, so its condition is read off the
   state after it), the counter is the fetch address plus 2. *)
C1_CounterAfterCycle ==
    AfterCycle =>
        LET f == LastFetched
            w == f.instruction
        IN  /\ w \div 4096 = 1 => pc = w % 4096
            /\ ( ~IsJumpWord(w) /\ ~IsCallWord(w) /\ ~IsReturnWord(w)
                 /\ ~(IsSkipWord(w) /\ SkipCondition(w, gpr, f.key)) )
               => pc = f.pc + 2

\* A jump to the last instruction slot has run after instructions that fell through.
C1_Witness ==
    /\ AfterCycle
    /\ Len(history) >= 3
    /\ LastFetched.instruction = OpAddr(1, 4095)
    /\ pc = 4095
    /\ LastFetched.pc = history[Len(history) - 1].pc + 2

(* C2: run returns Ok exactly when the two bytes at pc and pc + 1 cannot both
   be read, that is when the counter is at or past the last byte of memory;
   in every other state a step executes an instruction, waits for a key, or
   ends run another way. *)
C2_HaltsExactlyAtEndOfMemory ==
    [][ status = "running" =>
          /\ (status' = "ok") <=> (pc + 1 >= MEMORY_SIZE)
          /\ status' = "ok" => UNCHANGED <<pc, gpr, i, display, stack, memory,
                                           delay_timer, sound_timer, result, panic>>
          /\ status' /= "ok" =>
                status' \in {"running", "await_key", "error", "panic", "exit"}
      ]_vars

\* run has returned Ok with the counter on the last byte, after a jump there.
C2_Witness ==
    /\ status = "ok"
    /\ pc = MEMORY_SIZE - 1
    /\ history /= << >>
    /\ result = None

(* C3: executing 00EE with an empty call stack ends run with an error value
   and raises no panic. *)
C3_ReturnUnderflowIsError ==
    [][ ( /\ status = "running"
          /\ pc + 1 < MEMORY_SIZE
          /\ Word = 238
          /\ stack = << >>
          /\ status' /= "exit" )
        => (status' = "error" /\ panic' = "" /\ result' /= None) ]_vars

(* C4: the error of an unrecognized instruction names the offending word and
   the instruction executed immediately before it. *)
C4_ErrorNamesPreviousInstruction ==
    status = "error" =>
        /\ result /= None
        /\ result[1].instruction = InstructionAt(memory, pc)
        /\ history /= << >> =>
              result[1].previous_instruction = LastFetched.instruction

(* C5: a word that matches no pattern of the opcode table is never executed:
   every dispatched word is a listed opcode, and run ends with the decode
   error on every other word. *)
C5_UnlistedWordsAreFatal ==
    /\ \A k \in DOMAIN history : IsListedOpcode(history[k].instruction)
    /\ status = "error" => ~IsListedOpcode(result[1].instruction)

Front(h) == SubSeq(h, 1, Len(h) - 1)

\* The instructions whose handler ran to its end.
Completed == IF status = "panic" THEN Front(history) ELSE history

RECURSIVE MatchingStack(_)
\* The return addresses owed after the instructions h: each call adds the
\* address of the instruction after it, each return takes the newest away.
MatchingStack(h) ==
    IF h = << >> THEN << >>
    ELSE LET before == MatchingStack(Front(h))
             f == h[Len(h)]
         IN  IF IsCallWord(f.instruction) THEN Append(before, f.pc + 2)
             ELSE IF IsReturnWord(f.instruction) /\ before /= << >>
                  THEN Front(before)
                  ELSE before

Calls(h) == Cardinality({k \in DOMAIN h : IsCallWord(h[k].instruction)})
Returns(h) == Cardinality({k \in DOMAIN h : IsReturnWord(h[k].instruction)})

(* C6: 2addr pushes the address of the instruction after the call and jumps
   to addr; 00EE pops the newest address and jumps to it.  So the stack is
   always the list of the calls not yet returned from, each return resumes
   right after its matching call, and the depth is calls minus returns. *)
C6_CallsAndReturnsMatch ==
    /\ stack = MatchingStack(Completed)
    /\ Len(stack) = Calls(Completed) - Returns(Completed)
    /\ (AfterCycle /\ IsCallWord(LastFetched.instruction)) =>
          /\ pc = LastFetched.instruction % 4096
          /\ stack[Len(stack)] = LastFetched.pc + 2
    /\ (AfterCycle /\ IsReturnWord(LastFetched.instruction)) =>
          LET owed == MatchingStack(Front(history))
          IN  pc = owed[Len(owed)]

\* Two nested calls have both returned: the outer return resumed after the
\* outer call.
C6_Witness ==
    /\ AfterCycle
    /\ Len(history) = 4
    /\ IsCallWord(history[1].instruction)
    /\ IsCallWord(history[2].instruction)
    /\ IsReturnWord(history[3].instruction)
    /\ IsReturnWord(history[4].instruction)
    /\ stack = << >>
    /\ pc = history[1].pc + 2

\* The six skip patterns of the opcode table.
IsListedSkip(w) ==
    \/ w \div 4096 \in {3, 4}
    \/ w \div 4096 \in {5, 9} /\ w % 16 = 0
    \/ w \div 4096 = 14 /\ w % 256 \in {158, 161}

(* C7: a cycle that executes 3xkk, 4xkk, 5xy0, 9xy0, Ex9E or ExA1 leaves the
   counter at the fetch address plus 4 when the condition holds and plus 2
   otherwise, and changes no register; the key opcodes never skip when no key
   was polled in the cycle. *)
C7_SkipsByCondition ==
    [][ (CycleStep /\ IsListedSkip(Word)) =>
          LET key == history'[Len(history')].key
          IN  /\ gpr' = gpr
              /\ pc' = pc + (IF SkipCondition(Word, gpr, key) THEN 4 ELSE 2)
              /\ (Word \div 4096 = 14 /\ key = None) => pc' = pc + 2
      ]_vars

\* ExA1 has skipped on a polled key that differs from V0, after V0 was loaded.
C7_Witness ==
    /\ AfterCycle
    /\ LastFetched.instruction = Op(14, 0, 10, 1)
    /\ LastFetched.key /= None
    /\ LastFetched.key[1] /= gpr[0]
    /\ pc = LastFetched.pc + 4

(* C8: for x /= 0xF, 8xy4 leaves Vx = (Vx + Vy) mod 256 and VF = 1 when
   Vx + Vy > 255, VF = 0 otherwise. *)
C8_AddSetsCarry ==
    [][ (CycleStep /\ Word \div 4096 = 8 /\ Word % 16 = 4 /\ WordX /= 15) =>
          /\ gpr'[WordX] = (gpr[WordX] + gpr[WordY]) % 256
          /\ gpr'[15] = (IF gpr[WordX] + gpr[WordY] > 255 THEN 1 ELSE 0)
      ]_vars

\* 0xFF + 0x01 has given 0x00 with the flag set.
C8_Witness ==
    /\ AfterCycle
    /\ Len(history) = 3
    /\ history[1].instruction = OpByte(6, 0, 255)
    /\ history[2].instruction = OpByte(6, 1, 1)
    /\ history[3].instruction = Op(8, 0, 1, 4)
    /\ gpr[0] = 0
    /\ gpr[15] = 1

(* C9: for x /= 0xF, 8xy5 leaves Vx = (Vx - Vy) mod 256 with VF = 1 exactly
   when Vx >= Vy, and 8xy7 leaves Vx = (Vy - Vx) mod 256 with VF = 1 exactly
   when Vy >= Vx. *)
C9_SubtractSetsNoBorrow ==
    [][ (CycleStep /\ Word \div 4096 = 8 /\ WordX /= 15) =>
          /\ Word % 16 = 5 =>
                /\ gpr'[WordX] = (gpr[WordX] - gpr[WordY]) % 256
                /\ gpr'[15] = (IF gpr[WordX] >= gpr[WordY] THEN 1 ELSE 0)
          /\ Word % 16 = 7 =>
                /\ gpr'[WordX] = (gpr[WordY] - gpr[WordX]) % 256
                /\ gpr'[15] = (IF gpr[WordY] >= gpr[WordX] THEN 1 ELSE 0)
      ]_vars

\* 0x03 - 0x05 has given 0xFE with the flag clear.
C9_Witness ==
    /\ AfterCycle
    /\ Len(history) = 3
    /\ history[1].instruction = OpByte(6, 0, 3)
    /\ history[2].instruction = OpByte(6, 1, 5)
    /\ history[3].instruction = Op(8, 0, 1, 5)
    /\ gpr[0] = 254
    /\ gpr[15] = 0

(* C10: for x /= 0xF, 8xy6 and 8xyE set VF to the lowest bit Vx had; 8xy6
   leaves Vx = Vx >> 1 and 8xyE leaves Vx = (Vx << 1) mod 256.  The result
   is a function of Vx alone, and no register other than Vx and VF changes
   (so Vy, when it is another register, is neither read nor changed). *)
C10_ShiftsKeepLowestBit ==
    [][ (CycleStep /\ Word \div 4096 = 8 /\ Word % 16 \in {6, 14} /\ WordX /= 15) =>
          /\ gpr'[15] = gpr[WordX] % 2
          /\ Word % 16 = 6 => gpr'[WordX] = gpr[WordX] \div 2
          /\ Word % 16 = 14 => gpr'[WordX] = (gpr[WordX] * 2) % 256
          /\ \A r \in DOMAIN gpr : r \notin {WordX, 15} => gpr'[r] = gpr[r]
      ]_vars

\* 0x80 shifted left has given 0x00 with the flag 0, the lowest bit of 0x80,
\* while V1 kept its value.
C10_Witness ==
    /\ AfterCycle
    /\ Len(history) = 3
    /\ history[1].instruction = OpByte(6, 0, 128)
    /\ history[2].instruction = OpByte(6, 1, 255)
    /\ history[3].instruction = Op(8, 0, 1, 14)
    /\ gpr[0] = 0
    /\ gpr[15] = 0
    /\ gpr[1] = 255

----------------------------------------------------------------------------
(* Drawing and clearing *)

IsDrawWord(w) == w \div 4096 = 13

\* This step is a completed cycle of run that executed a Dxyn.
DrawStep == CycleStep /\ IsDrawWord(Word)

\* The rows of the sprite of the Dxyn at pc, and the bits of a row, bit 0
\* being the most significant one.
SpriteRows == 0 .. (Word % 16) - 1
SpriteColumns == 0 .. 7

\* Bit b of the byte of row r of the sprite at I.
SpriteBit(r, b) == (memory_at(memory, i + r) \div (2 ^ (7 - b))) % 2 = 1

\* The cell that bit b of row r of the Dxyn at pc is drawn on.
SpriteCell(r, b) == << gpr[WordX] + b, gpr[WordY] + r >>

\* The cells of the 8-by-n rectangle of the Dxyn at pc.
SpriteCells == {SpriteCell(r, b) : r \in SpriteRows, b \in SpriteColumns}

(* C11: after every Dxyn, VF is 1 if at least one cell of the display went
   from on to off during the draw and 0 otherwise, whatever VF held before. *)
C11_DrawSetsCollisionFlag ==
    [][ DrawStep =>
          gpr'[15] = (IF \E p \in display : p \notin display' THEN 1 ELSE 0)
      ]_vars

\* VF was set to 1, and a draw that turned no cell off has cleared it.
C11_Witness ==
    /\ AfterCycle
    /\ Len(history) = 5
    /\ history[4].instruction = OpByte(6, 15, 1)
    /\ IsDrawWord(history[5].instruction)
    /\ display /= {}
    /\ gpr[15] = 0

(* C12: Dxyn reads the n bytes memory[I .. I+n) and, for each row r in 0..n
   and bit b in 0..8 (bit 0 the most significant of the row byte), leaves the
   cell at column Vx+b, row Vy+r at its old value XOR that bit; every cell
   outside that rectangle, the memory, I and every register other than VF are
   unchanged. *)
C12_DrawXorsSpriteRectangle ==
    [][ DrawStep =>
          /\ \A r \in SpriteRows, b \in SpriteColumns :
                (SpriteCell(r, b) \in display')
                    <=> ((SpriteCell(r, b) \in display) /= SpriteBit(r, b))
          /\ \A p \in (display \cup display') \ SpriteCells :
                (p \in display') <=> (p \in display)
          /\ memory' = memory
          /\ i' = i
          /\ \A r \in DOMAIN gpr : r /= 15 => gpr'[r] = gpr[r]
      ]_vars

\* The glyph of 0 has been drawn at the top left corner: its first row is
\* 11110000 and its second row is 10010000.
C12_Witness ==
    /\ AfterCycle
    /\ Len(history) = 4
    /\ history[4].instruction = Op(13, 0, 1, 5)
    /\ gpr[0] = 0 /\ gpr[1] = 0 /\ i = 0
    /\ {<< 0, 0 >>, << 3, 0 >>, << 0, 1 >>, << 3, 1 >>} \subseteq display
    /\ << 4, 0 >> \notin display
    /\ << 1, 1 >> \notin display

(* C13: when a Dxyn runs right after the same Dxyn (x and y not 0xF, so that
   Vx, Vy, I and the sprite bytes are the same and the display was not
   written in between), the display is again what it was before the first of
   the two, and the second one sets VF to 1 exactly when a sprite bit of
   value 1 is drawn on a cell that was on after the first one. *)
C13_DrawTwiceRestores ==
    [][ ( /\ DrawStep
          /\ history /= << >>
          /\ LastFetched.instruction = Word
          /\ WordX /= 15 /\ WordY /= 15 ) =>
          /\ display' = LastFetched.display
          /\ gpr'[15] = (IF \E r \in SpriteRows, b \in SpriteColumns :
                               SpriteBit(r, b) /\ SpriteCell(r, b) \in display
                         THEN 1 ELSE 0)
      ]_vars

\* One row was drawn, then a five-row sprite twice over it: the display is
\* the one row again, and the second draw has turned cells off.
C13_Witness ==
    /\ AfterCycle
    /\ Len(history) = 6
    /\ history[4].instruction = Op(13, 0, 1, 1)
    /\ history[5].instruction = Op(13, 0, 1, 5)
    /\ history[6].instruction = Op(13, 0, 1, 5)
    /\ display /= {}
    /\ display = history[5].display
    /\ history[6].display /= display
    /\ gpr[15] = 1

(* C14: after 00E0 every cell of the display is off, whatever was drawn
   before; the registers (VF included), I, the stack and the memory are
   unchanged. *)
C14_ClearTurnsEveryCellOff ==
    [][ (CycleStep /\ Word = 224) =>
          /\ display' = {}
          /\ gpr' = gpr
          /\ i' = i
          /\ stack' = stack
          /\ memory' = memory
      ]_vars

\* A display with cells on, some of them right of column 63, has been cleared.
C14_Witness ==
    /\ AfterCycle
    /\ LastFetched.instruction = 224
    /\ \E p \in LastFetched.display : p[1] >= 64
    /\ display = {}

(* C15: every draw reads and toggles only cells of the 64-column by 32-row
   grid: no cell with column >= 64 or row >= 32 is ever on, and no draw stops
   the interpreter with a panic. *)
C15_DrawsStayOnScreen ==
    /\ \A p \in display : p[1] < 64 /\ p[2] < 32
    /\ ~ ( /\ status = "panic"
           /\ IsDrawWord(LastFetched.instruction)
           /\ panic = "index out of bounds" )

----------------------------------------------------------------------------
(* Memory and the program counter *)

\* The words of Fx33, Fx55 and Fx65, which index memory at I and after it.
IsStoreWord(w) == w \div 4096 = 15 /\ w % 256 \in {51, 85, 101}

(* C16: Fx33, Fx55, Fx65 and Dxyn never address memory outside 0..4095:
   when I would take the access out of range the opcode ends in a controlled
   outcome, never in a panic of the interpreter. *)
C16_AddressedAccessIsGuarded ==
    ~ ( /\ status = "panic"
        /\ \/ /\ IsStoreWord(LastFetched.instruction)
              /\ panic = "index out of bounds"
           \/ /\ IsDrawWord(LastFetched.instruction)
              /\ panic = "range end index out of range for slice" )

(* C17: in every reachable state the program counter is at most 0xFFF and
   even, and it is 0x200 before the first instruction. *)
C17_CounterIsEvenTwelveBit ==
    /\ pc <= 4095
    /\ pc % 2 = 0
    /\ (history = << >> /\ status = "running") => pc = START_POINT

----------------------------------------------------------------------------
(* Timers and the wait for a key *)

IsSetDelayWord(w) == w \div 4096 = 15 /\ w % 256 = 21
IsSetSoundWord(w) == w \div 4096 = 15 /\ w % 256 = 24
IsGetDelayWord(w) == w \div 4096 = 15 /\ w % 256 = 7
IsAwaitKeyWord(w) == w \div 4096 = 15 /\ w % 256 = 10

\* This step ends the wait of an Fx0A with a key.
WaitEnds == status = "await_key" /\ status' = "running"

\* This step completes a cycle of run: its match arm has returned and
\* update_timers has run.
CompletesCycle == CycleStep \/ WaitEnds

\* The word whose cycle a CompletesCycle step completes.
CompletedWord == IF status = "await_key" THEN LastFetched.instruction ELSE Word

\* A timer after one tick.
Ticked(timer) == IF timer > 0 THEN timer - 1 ELSE 0

(* C18: the delay and sound timers are independent 8-bit counters: every
   completed cycle takes one off each timer that is not zero and leaves a
   zero timer at zero, except that the cycle of Fx15 writes the delay timer
   and the cycle of Fx18 the sound timer; no other step changes a timer. *)
C18_TimersCountDownToZero ==
    [][ /\ delay_timer' \in 0 .. 255
        /\ sound_timer' \in 0 .. 255
        /\ (CompletesCycle /\ ~IsSetDelayWord(CompletedWord)) =>
              delay_timer' = Ticked(delay_timer)
        /\ (CompletesCycle /\ ~IsSetSoundWord(CompletedWord)) =>
              sound_timer' = Ticked(sound_timer)
        /\ ~CompletesCycle =>
              (delay_timer' = delay_timer /\ sound_timer' = sound_timer)
      ]_vars

\* The delay timer was set from 3 and the sound timer from 255; two cycles
\* later the delay timer has been held at zero while the sound timer still counts.
C18_Witness ==
    /\ AfterCycle
    /\ Len(history) = 6
    /\ history[1].instruction = OpByte(6, 0, 3)
    /\ history[2].instruction = OpByte(6, 1, 255)
    /\ history[3].instruction = OpF(0, 21)
    /\ history[4].instruction = OpF(1, 24)
    /\ delay_timer = 0
    /\ sound_timer = 252

(* C19 as stated: when the cycle of Fx15 completes the delay timer holds Vx,
   when the cycle of Fx18 completes the sound timer holds Vx, and Fx07
   copies the delay timer into Vx. *)
C19_TimerHoldsRegisterAfterCycle ==
    [][ CycleStep =>
          /\ IsSetDelayWord(Word) => delay_timer' = gpr[WordX]
          /\ IsSetSoundWord(Word) => sound_timer' = gpr[WordX]
          /\ IsGetDelayWord(Word) => gpr'[WordX] = delay_timer
      ]_vars

(* C19, amended: the tick that ends the cycle follows the handler, so when
   the cycle of Fx15 completes the delay timer holds Vx less one (0 for
   Vx = 0), and likewise the sound timer for Fx18, the other timer having
   ticked as in every cycle; Fx07 copies into Vx the delay timer as it is
   before that tick. *)
C19_TimerHoldsRegisterLessTick ==
    [][ CycleStep =>
          /\ IsSetDelayWord(Word) =>
                (delay_timer' = Ticked(gpr[WordX]) /\ sound_timer' = Ticked(sound_timer))
          /\ IsSetSoundWord(Word) =>
                (sound_timer' = Ticked(gpr[WordX]) /\ delay_timer' = Ticked(delay_timer))
          /\ IsGetDelayWord(Word) => gpr'[WordX] = delay_timer
      ]_vars

\* Fx15 has run with V0 = 3 and left the delay timer at 2; Fx07 has then
\* copied 2 into V2 while the timer went on to 1.
C19_Witness ==
    /\ AfterCycle
    /\ Len(history) = 4
    /\ history[1].instruction = OpByte(6, 0, 3)
    /\ history[3].instruction = OpF(0, 21)
    /\ history[4].instruction = OpF(2, 7)
    /\ gpr[2] = 2
    /\ delay_timer = 1

\* The interpreter's fields other than the program counter are left alone.
WaitKeepsState ==
    /\ gpr' = gpr /\ i' = i /\ stack' = stack /\ memory' = memory
    /\ display' = display
    /\ delay_timer' = delay_timer /\ sound_timer' = sound_timer

\* The hex digits of the key events.
HexKeys == {polled_key(event)[1] : event \in {e \in Events : polled_key(e) /= None}}

(* C20 as stated: Fx0A starts a wait without changing a register, a timer,
   I, the stack, the memory or the display, and the wait ends in no other
   way than by a key event that maps to a hex digit: Vx then holds that
   digit and execution continues with the next instruction. *)
C20_WaitEndsOnlyWithHexKey ==
    [][ /\ (status = "running" /\ status' = "await_key") =>
              (IsAwaitKeyWord(Word) /\ pc' = pc + 2 /\ WaitKeepsState)
        /\ status = "await_key" =>
              /\ status' = "running"
              /\ pc' = pc
              /\ pc = LastFetched.pc + 2
              /\ \E digit \in HexKeys :
                    gpr' = [gpr EXCEPT ![Nibble(LastFetched.instruction, 2)] = digit]
      ]_vars

(* C20, amended: Fx0A starts a wait without changing a register, a timer,
   I, the stack, the memory or the display; while it waits nothing changes;
   the wait ends either with a key event that maps to a hex digit, after
   which Vx holds that digit, the timers have ticked once for the cycle and
   execution continues with the next instruction, or with the Esc key,
   which ends the process with the state as it was.  Any other event leaves
   the wait going. *)
C20_WaitEndsWithHexKeyOrEsc ==
    [][ /\ (status = "running" /\ status' = "await_key") =>
              (IsAwaitKeyWord(Word) /\ pc' = pc + 2 /\ WaitKeepsState)
        /\ status = "await_key" =>
              \/ /\ status' = "exit"
                 /\ pc' = pc
                 /\ WaitKeepsState
              \/ /\ status' = "running"
                 /\ pc' = pc
                 /\ pc = LastFetched.pc + 2
                 /\ \E digit \in HexKeys :
                       gpr' = [gpr EXCEPT ![Nibble(LastFetched.instruction, 2)] = digit]
                 /\ i' = i /\ stack' = stack /\ memory' = memory
                 /\ display' = display
                 /\ delay_timer' = Ticked(delay_timer)
                 /\ sound_timer' = Ticked(sound_timer)
      ]_vars

\* A wait of F30A has ended with the key q, the digit 4, with the delay timer
\* ticking once for the whole cycle.
C20_Witness ==
    /\ AfterCycle
    /\ Len(history) = 4
    /\ history[1].instruction = OpByte(6, 0, 3)
    /\ history[3].instruction = OpF(0, 21)
    /\ history[4].instruction = OpF(3, 10)
    /\ gpr[3] = 4
    /\ delay_timer = 1
    /\ pc = 520

----------------------------------------------------------------------------
(* Loading *)

\* Interpreter::new has returned and run has not yet dispatched an instruction.
Fresh == history = << >> /\ status \in {"running", "load_error"}

\* Past the font, the array that load_font leaves is zero.
ZeroPastFont == \A a \in Len(FONT) .. MEMORY_SIZE - 1 : load_font[a] = 0

\* Every byte of mem from address `from` on is zero: those that differ from
\* the array load_font leaves, and that array's own.
ZeroFrom(mem, from) ==
    /\ from >= Len(FONT)
    /\ ZeroPastFont
    /\ \A a \in DOMAIN mem : a >= from => mem[a] = 0

(* C21: Interpreter::new succeeds exactly when the program is at most
   4096 - 0x200 = 3584 bytes long and fails for any longer one; on success
   memory[0x200 + k] is byte k of the program, the memory from the end of
   the program to 0xFFF is zero, and the font bytes from address 0 on lie
   below 0x200 and are those of FONT. *)
C21_LoadsUpToMemoryEnd ==
    /\ (status = "load_error") <=> (Len(binary) > 3584)
    /\ (Fresh /\ status = "running") =>
          /\ \A k \in 1 .. Len(binary) : memory_at(memory, 512 + (k - 1)) = binary[k]
          /\ ZeroFrom(memory, 512 + Len(binary))
          /\ Len(FONT) <= 512
          /\ \A a \in 0 .. Len(FONT) - 1 : memory_at(memory, a) = FONT[a + 1]

\* A binary of exactly 3584 bytes has been loaded: its last byte is at 0xFFF.
C21_Witness ==
    /\ Fresh
    /\ status = "running"
    /\ Len(binary) = 3584
    /\ binary[3584] = 1
    /\ memory_at(memory, 4095) = 1

----------------------------------------------------------------------------
(* The opcodes that use I *)

IsSpriteWord(w) == w \div 4096 = 15 /\ w % 256 = 41
IsBcdWord(w) == w \div 4096 = 15 /\ w % 256 = 51
IsStoreRegistersWord(w) == w \div 4096 = 15 /\ w % 256 = 85
IsStoreMemoryWord(w) == w \div 4096 = 15 /\ w % 256 = 101
IsAddAddressWord(w) == w \div 4096 = 15 /\ w % 256 = 30

\* The five rows of the glyph of a hex digit, as FONT lists them.
GlyphRows(digit) == [row \in 1 .. 5 |-> FONT[digit * (Len(FONT) \div 16) + row]]

(* C22: after Fx29 with Vx = d, d in 0..15, I is d * 5 and the five bytes
   memory[I .. I+5) are the five rows of the glyph of d. *)
C22_SpriteAddressIsFiveTimesDigit ==
    [][ (CycleStep /\ IsSpriteWord(Word) /\ gpr[WordX] \in 0 .. 15) =>
          /\ i' = gpr[WordX] * 5
          /\ \A row \in 1 .. 5 :
                memory_at(memory', i' + (row - 1)) = GlyphRows(gpr[WordX])[row]
      ]_vars

\* The addresses at which the two memories differ.
Differing(mem1, mem2) ==
    {a \in DOMAIN mem1 \cup DOMAIN mem2 : memory_at(mem1, a) /= memory_at(mem2, a)}

(* C23: for every byte value v of Vx, Fx33 writes h, t, o to memory[I],
   memory[I+1], memory[I+2], each in 0..9 and with 100*h + 10*t + o = v; no
   other byte of memory, no register and not I is changed. *)
C23_BcdDigits ==
    [][ (CycleStep /\ IsBcdWord(Word)) =>
          LET h == memory_at(memory', i)
              t == memory_at(memory', i + 1)
              o == memory_at(memory', i + 2)
          IN  /\ h \in 0 .. 9 /\ t \in 0 .. 9 /\ o \in 0 .. 9
              /\ 100 * h + 10 * t + o = gpr[WordX]
              /\ Differing(memory, memory') \subseteq {i, i + 1, i + 2}
              /\ gpr' = gpr
              /\ i' = i
      ]_vars

\* 255 has been written as 2, 5, 5 at 0x300.
C23_Witness ==
    /\ AfterCycle
    /\ Len(history) = 3
    /\ IsBcdWord(LastFetched.instruction)
    /\ gpr[0] = 255
    /\ i = 768
    /\ memory_at(memory, 768) = 2
    /\ memory_at(memory, 769) = 5
    /\ memory_at(memory, 770) = 5

(* C24: Fx55 copies V0..=Vx into memory[I .. I+x] and Fx65 copies
   memory[I .. I+x] into V0..=Vx, register x included; each leaves I, the
   registers above x and the memory outside that range unchanged. *)
C24_StoreAndLoadRegisters ==
    [][ /\ (CycleStep /\ IsStoreRegistersWord(Word)) =>
              /\ \A r \in 0 .. WordX : memory_at(memory', i + r) = gpr[r]
              /\ Differing(memory, memory') \subseteq {i + r : r \in 0 .. WordX}
              /\ gpr' = gpr
              /\ i' = i
        /\ (CycleStep /\ IsStoreMemoryWord(Word)) =>
              /\ \A r \in 0 .. WordX : gpr'[r] = memory_at(memory, i + r)
              /\ \A r \in DOMAIN gpr : r > WordX => gpr'[r] = gpr[r]
              /\ memory' = memory
              /\ i' = i
      ]_vars

\* V0..V2 = 200, 1, 200 were stored by F255, V0 and V1 were overwritten, and
\* F265 has brought the stored values back.
C24_Witness ==
    /\ AfterCycle
    /\ Len(history) = 8
    /\ history[5].instruction = OpF(2, 85)
    /\ history[6].instruction = OpByte(6, 0, 7)
    /\ history[8].instruction = OpF(2, 101)
    /\ gpr[0] = 200 /\ gpr[1] = 1 /\ gpr[2] = 200
    /\ memory_at(memory, 768) = 200
    /\ memory_at(memory, 770) = 200
    /\ i = 768

(* C25: Fx1E sets I to (I + Vx) mod 2^16 for every value of I and Vx: the
   add wraps at 16 bits, never ends the interpreter with a panic, and
   changes no register. *)
C25_AddressAddWraps ==
    [][ (status = "running" /\ IsAddAddressWord(Word) /\ status' /= "exit") =>
          /\ status' = "running"
          /\ i' = (i + gpr[WordX]) % 65536
          /\ gpr' = gpr
      ]_vars

----------------------------------------------------------------------------
(* The end of the process *)

(* C26: the exit code of the process is 0 when the program ends normally or
   the user leaves with Esc, and 1 for every fatal error: a program that is
   too long, an unknown opcode, a return with an empty stack. *)
C26_ExitCodeZeroOrOne ==
    exit_code /= None =>
        exit_code = Some(IF status \in {"ok", "exit"} THEN 0 ELSE 1)

----------------------------------------------------------------------------
(* Decoding *)

(* C27: for every pair of bytes (b1, b2) the instruction word is
   b1 * 256 + b2; split_word returns four nibbles, each in 0..15, the most
   significant first, whose reassembly is the word; and Tribble::new of the
   three low nibbles is the word mod 4096. *)
C27_DecodeRoundTrip ==
    (unit.name = "decode" /\ unit.instruction /= None) =>
        LET word == unit.instruction[1]
            nibbles == unit.nibbles[1]
        IN  /\ word = unit.byte1 * 256 + unit.byte2
            /\ Len(nibbles) = 4
            /\ \A k \in 1 .. 4 : nibbles[k] \in 0 .. 15
            /\ nibbles[1] * 4096 + nibbles[2] * 256 + nibbles[3] * 16 + nibbles[4]
                  = word
            /\ unit.tribble = Some(word % 4096)

\* 0xABFE has been split to A, B, F, E and its address operand is 0xBFE.
C27_Witness ==
    /\ unit.name = "decode"
    /\ unit.byte1 = 171 /\ unit.byte2 = 254
    /\ unit.instruction = Some(44030)
    /\ unit.nibbles = Some(<< 10, 11, 15, 14 >>)
    /\ unit.tribble = Some(3070)

\* The value of item k of the items yielded, as a binary digit.
Digit(items, k) == IF items[k] = Some(TRUE) THEN 1 ELSE 0

\* The first eight items read as a binary number, the first the most significant.
ReadBack(items) ==
    128 * Digit(items, 1) + 64 * Digit(items, 2) + 32 * Digit(items, 3)
        + 16 * Digit(items, 4) + 8 * Digit(items, 5) + 4 * Digit(items, 6)
        + 2 * Digit(items, 7) + Digit(items, 8)

\* Bit n of a byte, bit 0 the least significant.
BitOf(byte, n) == (byte \div (2 ^ n)) % 2 = 1

(* C28: for every byte b, Bits::new(b) iterated forward yields 8 booleans
   and then None, item k (from 0) being bit 7 - k of b, so that read back as
   a binary number they are b; Bits::new(b).rev() yields 8 booleans and then
   None in the opposite order, the least significant bit first. *)
C28_BitsMostSignificantFirst ==
    unit.name = "Bits" =>
        /\ \A k \in 1 .. Len(unit.yielded) :
              unit.yielded[k] =
                  (IF k > 8 THEN None
                   ELSE IF unit.rev THEN Some(BitOf(unit.bits.byte, k - 1))
                   ELSE Some(BitOf(unit.bits.byte, 8 - k)))
        /\ (~unit.rev /\ Len(unit.yielded) >= 8) =>
              /\ ReadBack(unit.yielded) = unit.bits.byte
              /\ \A k \in 1 .. 8 : unit.yielded[k] = Some(Bits(unit.bits.byte)[k])

\* 0xB0 iterated forward has yielded 1, 0, 1, 1, 0, 0, 0, 0 and then None.
C28_Witness ==
    /\ unit.name = "Bits"
    /\ ~unit.rev
    /\ unit.bits.byte = 176
    /\ unit.yielded = << Some(TRUE), Some(FALSE), Some(TRUE), Some(TRUE),
                          Some(FALSE), Some(FALSE), Some(FALSE), Some(FALSE),
                          None >>

----------------------------------------------------------------------------
(* The flag register and the failed cycle *)

\* The words of 8xy4, 8xy5, 8xy6, 8xy7, 8xyE and Dxyn.
IsFlagWord(w) ==
    \/ w \div 4096 = 8 /\ w % 16 \in {4, 5, 6, 7, 14}
    \/ IsDrawWord(w)

(* C29: after any cycle that executes 8xy4, 8xy5, 8xy6, 8xy7, 8xyE or Dxyn,
   for every x and y, x = 0xF included, VF holds 0 or 1. *)
C29_FlagIsZeroOrOne ==
    [][ (CycleStep /\ IsFlagWord(Word)) => gpr'[15] \in {0, 1} ]_vars

(* C30: when run stops with the error of an unknown instruction, the state
   is as it was when that instruction was fetched: the timers are not
   ticked for that cycle, pc is at the offending instruction, and the
   registers, I, the stack, the memory and the display are unchanged. *)
C30_ErrorLeavesStateAsFetched ==
    [][ (status = "running" /\ status' = "error") =>
          /\ result' /= None
          /\ result'[1].instruction = Word
          /\ pc' = pc
          /\ InstructionAt(memory', pc') = result'[1].instruction
          /\ delay_timer' = delay_timer
          /\ sound_timer' = sound_timer
          /\ gpr' = gpr /\ i' = i /\ stack' = stack
          /\ memory' = memory /\ display' = display
      ]_vars

\* The delay timer was set from 3 and ticked to 2; the unknown word FxFF
\* after it has stopped run with the timer still at 2 and pc at that word.
C30_Witness ==
    /\ status = "error"
    /\ Len(history) = 3
    /\ history[3].instruction = OpF(0, 21)
    /\ gpr[0] = 3
    /\ delay_timer = 2
    /\ pc = 518
    /\ result = Some([instruction |-> OpF(0, 255), previous_instruction |-> OpF(0, 255)])

----------------------------------------------------------------------------
\* No word yet dispatched was handed to jump, jump_with_register, call or
\* return.
NoJumpExecuted ==
    \A k \in 1 .. Len(history) :
        /\ history[k].instruction \div 4096 \notin {1, 2, 11}
        /\ history[k].instruction /= 238

\* The iterations of the loop of run so far: those dispatched to a handler
\* and the one that returned the error.
Cycles == Len(history) + (IF status = "error" THEN 1 ELSE 0)

\* The even addresses from START_POINT up to the end of the memory.
MostCycles == (MEMORY_SIZE - START_POINT) \div 2

\* run has returned, or the process has ended under it.
Ended == status \in {"ok", "error", "panic", "exit"}

\* This step begins an iteration of the loop of run that goes on to the next
\* one, at once or after the wait of Fx0A.
ClimbStep ==
    /\ status = "running"
    /\ status' \in {"running", "await_key"}
    /\ Len(history') = Len(history) + 1

(* C31, as the source has it: while no 1addr, 2addr, 00EE or Baddr has been
   executed, every cycle that goes on to the next one leaves pc 2 or 4 above
   the address it fetched from (the wait of Fx0A does not move pc), no more
   than (4096 - 0x200) / 2 cycles are run, and, every wait being answered,
   the run ends: run returns Ok or the error, or the process ends under it by
   Esc or by a panic. *)
C31_StraightRunEnds ==
    /\ [][ \/ /\ ClimbStep => pc' - pc \in {2, 4}
              /\ status = "await_key" => pc' = pc
           \/ ~NoJumpExecuted' ]_vars
    /\ [](Cycles <= MostCycles \/ ~NoJumpExecuted)
    /\ <>(Ended \/ ~NoJumpExecuted)

(* C31, as stated: in any execution in which no 1addr, 2addr, 00EE or Baddr
   is executed and every wait is answered, pc rises by 2 or 4 in every cycle
   and run ends by a normal halt or a fatal error after at most
   (4096 - 0x200) / 2 cycles. *)
C31_StraightRunHaltsOrFails ==
    /\ [][ \/ /\ ClimbStep => pc' - pc \in {2, 4}
              /\ status = "await_key" => pc' = pc
           \/ ~NoJumpExecuted' ]_vars
    /\ [](Cycles <= MostCycles \/ ~NoJumpExecuted)
    /\ <>(status \in {"ok", "error"} \/ ~NoJumpExecuted)

\* The program of two words has run to the end of the memory: its skip was
\* not taken, every word of zero bytes did nothing, and run has returned Ok
\* after (4096 - 0x200) / 2 cycles.
C31_Witness ==
    /\ NoJumpExecuted
    /\ status = "ok"
    /\ Cycles = MostCycles
    /\ history[2].instruction = OpByte(4, 0, 0)
    /\ history[3].pc = history[2].pc + 2
    /\ LastFetched.pc = MEMORY_SIZE - 2
    /\ pc = MEMORY_SIZE

----------------------------------------------------------------------------
(* C32: the memory is written by Fx33 and Fx55 alone: a step that leaves any
   of the 4096 bytes other than it was is a cycle of run that executed one of
   those two words. Every other word (Dxyn, Fx65, Fx29, calls and returns
   among them), the wait for a key, the end of run and what follows it leave
   the memory as it was; a call changes the stack, never the memory. *)
C32_OnlyBcdAndStoreWriteMemory ==
    [][ /\ memory' /= memory =>
             /\ status = "running"
             /\ IsBcdWord(Word) \/ IsStoreRegistersWord(Word)
        /\ (CycleStep /\ IsCallWord(Word)) =>
             /\ memory' = memory
             /\ stack' = Append(stack, pc + 2)
      ]_vars

\* With V0 = 255 and I = 0, F033 has written the digits 2, 5, 5 over the first
\* three bytes of the font; the two words before it left the memory as loaded.
C32_Witness ==
    /\ AfterCycle
    /\ Len(history) = 3
    /\ LastFetched.instruction = OpF(0, 51)
    /\ gpr[0] = 255
    /\ i = 0
    /\ Differing(memory, FreshMemory) \subseteq {0, 1, 2} \cup (START_POINT .. START_POINT + 5)
    /\ << memory_at(memory, 0), memory_at(memory, 1), memory_at(memory, 2) >> = << 2, 5, 5 >>
    /\ load_font[0] /= 2

----------------------------------------------------------------------------
\* The state this cycle of run would have left, had its poll timed out.
AsWithoutKey ==
    \E rn \in (IF Word \div 4096 = 12 THEN RandomBytes ELSE {0}),
       checked \in BOOLEAN :
        \E bytes \in {get_bytes(Self)[1]} :
        \E d \in {dispatch(next_instruction(Self), bytes[1], bytes[2], None,
                           rn, checked)} :
            /\ d.kind = "executed"
            /\ Self' = update_timers(d.s)

\* The register that the wait in progress will write.
AwaitedRegister == Nibble(LastFetched.instruction, 2)

(* C33: the key polled at the start of a cycle reaches Ex9E and ExA1 of that
   cycle and nothing else. A cycle of Ex9E or ExA1 skips by the key polled in
   that very cycle and by no other. A cycle of any other word that is not
   Fx0A leaves the state that it would have left had its poll timed out.
   A cycle of Fx0A, whatever was polled, starts the wait with the registers
   as they were; and in the wait, whatever was polled at the start of the
   cycle, each hex key that the terminal can deliver ends the wait with Vx
   holding that key. *)
C33_PolledKeyServesItsCycleOnly ==
    /\ [][ /\ (CycleStep /\ Word \div 4096 = 14) =>
                 pc' = pc + (IF SkipCondition(Word, gpr, LastFetched'.key)
                             THEN 4 ELSE 2)
           /\ (CycleStep /\ ~AboutKeys(Word)) => AsWithoutKey
           /\ (status = "running" /\ get_bytes(Self) /= None
                 /\ IsAwaitKeyWord(Word) /\ status' /= status) =>
                 \/ status' = "exit"
                 \/ status' = "await_key" /\ gpr' = gpr
         ]_vars
    /\ [](status = "await_key" =>
            \A digit \in HexKeys :
                ENABLED (AwaitKey /\ status' = "running"
                           /\ gpr'[AwaitedRegister] = digit))

\* F30A was fetched in a cycle whose poll delivered the key 1; the wait went
\* on all the same and has ended with the key q, the digit 4, in V3.
C33_Witness ==
    /\ AfterCycle
    /\ IsAwaitKeyWord(LastFetched.instruction)
    /\ AwaitedRegister = 3
    /\ LastFetched.key = Some(1)
    /\ gpr[3] = 4

====
